---- MODULE Spec2Model ----
(***************************************************************************)
(* State-machine model of captest/capdata.py: the column classifier        *)
(* (__series_type over type_defs / sub_type_defs / irr_sensors_defs) and   *)
(* the CapData container (load_data, filter_irr with the update_summary    *)
(* decorator, reset_flt, drop_cols, view, rview, rep_cond, plot's group    *)
(* merging).                                                               *)
(*                                                                         *)
(* Python strings that the code searches (column names, search strings,    *)
(* group keys) are tuples of one-character strings, so that str.lower()    *)
(* and str.find() are computed character by character.                     *)
(***************************************************************************)
EXTENDS Integers, Sequences, FiniteSets, TLC

\* ------------------------------------------------------------------------
\* Python str operations
\* ------------------------------------------------------------------------

UpperChars == {"A", "B", "C", "D", "E", "F", "G", "H", "I", "J", "K", "L", "M", "N", "O", "P", "Q", "R", "S", "T", "U", "V", "W", "X", "Y", "Z"}

\* str.lower() on one character (ASCII letters; every other character is
\* left as it is).
LowerMap ==
  [c \in UpperChars |->
     CASE c = "A" -> "a"
       [] c = "B" -> "b"
       [] c = "C" -> "c"
       [] c = "D" -> "d"
       [] c = "E" -> "e"
       [] c = "F" -> "f"
       [] c = "G" -> "g"
       [] c = "H" -> "h"
       [] c = "I" -> "i"
       [] c = "J" -> "j"
       [] c = "K" -> "k"
       [] c = "L" -> "l"
       [] c = "M" -> "m"
       [] c = "N" -> "n"
       [] c = "O" -> "o"
       [] c = "P" -> "p"
       [] c = "Q" -> "q"
       [] c = "R" -> "r"
       [] c = "S" -> "s"
       [] c = "T" -> "t"
       [] c = "U" -> "u"
       [] c = "V" -> "v"
       [] c = "W" -> "w"
       [] c = "X" -> "x"
       [] c = "Y" -> "y"
       [] c = "Z" -> "z"]

LowerChar(c) == IF c \in UpperChars THEN LowerMap[c] ELSE c

\* str.lower()
Lower(s) == [i \in 1..Len(s) |-> LowerChar(s[i])]

\* sub occurs in s at 0-based offset i
OccursAt(s, sub, i) ==
  /\ i + Len(sub) <= Len(s)
  /\ \A k \in 1..Len(sub) : s[i + k] = sub[k]

\* str.find(sub): lowest 0-based offset of sub in s, -1 when absent.
Find(s, sub) ==
  LET hits == {i \in 0..Len(s) : OccursAt(s, sub, i)}
  IN  IF hits = {} THEN -1
      ELSE CHOOSE i \in hits : \A j \in hits : i <= j

\* sep.join(parts)
RECURSIVE Join(_, _)
Join(sep, parts) ==
  IF Len(parts) = 0 THEN <<>>
  ELSE IF Len(parts) = 1 THEN parts[1]
  ELSE parts[1] \o sep \o Join(sep, Tail(parts))

\* ------------------------------------------------------------------------
\* Lookup tables
\* ------------------------------------------------------------------------

\* The upper bound 1000000000000 of real_pwr does not fit the model
\* checker's integers; every series value of the model is far below either
\* number, so the comparison against it has the same outcome.
BigBound == 2147483647

\* the bounds ('', 'z') of the index category are strings
StrEmpty == <<>>
StrZ == <<"z">>

\* capdata.py type_defs: ordered (category, search strings, (min, max)).
type_defs ==
  <<
     [key |-> <<"i","r","r">>,
      strs |-> <<
        <<"i","r","r","a","d","i","a","n","c","e">>,
        <<"i","r","r">>,
        <<"p","l","a","n","e"," ","o","f"," ","a","r","r","a","y">>,
        <<"p","o","a">>,
        <<"g","h","i">>,
        <<"g","l","o","b","a","l">>,
        <<"g","l","o","b">>,
        <<"w","/","m","^","2">>,
        <<"w","/","m","2">>,
        <<"w","/","m">>,
        <<"w","/">>>>,
      bounds |-> [kind |-> "num", lo |-> -10, hi |-> 1500]],
     [key |-> <<"t","e","m","p">>,
      strs |-> <<
        <<"t","e","m","p","e","r","a","t","u","r","e">>,
        <<"t","e","m","p">>,
        <<"d","e","g","r","e","e","s">>,
        <<"d","e","g">>,
        <<"a","m","b","i","e","n","t">>,
        <<"a","m","b">>,
        <<"c","e","l","l"," ","t","e","m","p","e","r","a","t","u","r","e">>,
        <<"T","A","r","r","a","y">>>>,
      bounds |-> [kind |-> "num", lo |-> -49, hi |-> 127]],
     [key |-> <<"w","i","n","d">>,
      strs |-> <<
        <<"w","i","n","d">>,
        <<"s","p","e","e","d">>>>,
      bounds |-> [kind |-> "num", lo |-> 0, hi |-> 18]],
     [key |-> <<"p","f">>,
      strs |-> <<
        <<"p","o","w","e","r"," ","f","a","c","t","o","r">>,
        <<"f","a","c","t","o","r">>,
        <<"p","f">>>>,
      bounds |-> [kind |-> "num", lo |-> -1, hi |-> 1]],
     [key |-> <<"o","p","_","s","t","a","t","e">>,
      strs |-> <<
        <<"o","p","e","r","a","t","i","n","g"," ","s","t","a","t","e">>,
        <<"s","t","a","t","e">>,
        <<"o","p">>,
        <<"s","t","a","t","u","s">>>>,
      bounds |-> [kind |-> "num", lo |-> 0, hi |-> 10]],
     [key |-> <<"r","e","a","l","_","p","w","r">>,
      strs |-> <<
        <<"r","e","a","l"," ","p","o","w","e","r">>,
        <<"a","c"," ","p","o","w","e","r">>,
        <<"e","_","g","r","i","d">>>>,
      bounds |-> [kind |-> "num", lo |-> -1000000, hi |-> BigBound]],
     [key |-> <<"s","h","a","d","e">>,
      strs |-> <<
        <<"f","s","h","d","b","m">>,
        <<"s","h","d">>,
        <<"s","h","a","d","e">>>>,
      bounds |-> [kind |-> "num", lo |-> 0, hi |-> 1]],
     [key |-> <<"p","v","s","y","t","_","l","o","s","s","e","s">>,
      strs |-> <<
        <<"I","L"," ","P","m","a","x">>,
        <<"I","L"," ","P","m","i","n">>,
        <<"I","L"," ","V","m","a","x">>,
        <<"I","L"," ","V","m","i","n">>>>,
      bounds |-> [kind |-> "num", lo |-> -1000000000, hi |-> 100000000]],
     [key |-> <<"i","n","d","e","x">>,
      strs |-> <<
        <<"i","n","d","e","x">>>>,
      bounds |-> [kind |-> "str", lo |-> StrEmpty, hi |-> StrZ]]
  >>

\* capdata.py sub_type_defs: ordered (sub-type, search strings); no bounds.
sub_type_defs ==
  <<
     [key |-> <<"g","h","i">>,
      strs |-> <<
        <<"s","u","n","2">>,
        <<"g","l","o","b","a","l"," ","h","o","r","i","z","o","n","t","a","l">>,
        <<"g","h","i">>,
        <<"g","l","o","b","a","l">>,
        <<"G","l","o","b","H","o","r">>>>,
      bounds |-> [kind |-> "none"]],
     [key |-> <<"p","o","a">>,
      strs |-> <<
        <<"s","u","n">>,
        <<"p","l","a","n","e"," ","o","f"," ","a","r","r","a","y">>,
        <<"p","o","a">>,
        <<"G","l","o","b","I","n","c">>>>,
      bounds |-> [kind |-> "none"]],
     [key |-> <<"a","m","b">>,
      strs |-> <<
        <<"T","e","m","p","F">>,
        <<"a","m","b","i","e","n","t">>,
        <<"a","m","b">>>>,
      bounds |-> [kind |-> "none"]],
     [key |-> <<"m","o","d">>,
      strs |-> <<
        <<"T","e","m","p","1">>,
        <<"m","o","d","u","l","e">>,
        <<"m","o","d">>,
        <<"T","A","r","r","a","y">>>>,
      bounds |-> [kind |-> "none"]],
     [key |-> <<"m","t","r">>,
      strs |-> <<
        <<"r","e","v","e","n","u","e"," ","m","e","t","e","r">>,
        <<"r","e","v"," ","m","e","t","e","r">>,
        <<"b","i","l","l","i","n","g"," ","m","e","t","e","r">>,
        <<"m","e","t","e","r">>>>,
      bounds |-> [kind |-> "none"]],
     [key |-> <<"i","n","v">>,
      strs |-> <<
        <<"i","n","v","e","r","t","e","r">>,
        <<"i","n","v">>>>,
      bounds |-> [kind |-> "none"]]
  >>

\* capdata.py irr_sensors_defs: (sensor type, search strings); no bounds.
irr_sensors_defs ==
  <<
     [key |-> <<"r","e","f","_","c","e","l","l">>,
      strs |-> <<
        <<"r","e","f","e","r","e","n","c","e"," ","c","e","l","l">>,
        <<"r","e","f","e","r","e","n","c","e">>,
        <<"r","e","f">>,
        <<"r","e","f","e","r","a","n","c","e">>,
        <<"p","v","e","l">>>>,
      bounds |-> [kind |-> "none"]],
     [key |-> <<"p","y","r","a","n">>,
      strs |-> <<
        <<"p","y","r","a","n","o","m","e","t","e","r">>,
        <<"p","y","r","a","n">>>>,
      bounds |-> [kind |-> "none"]],
     [key |-> <<"c","l","e","a","r","_","s","k","y">>,
      strs |-> <<
        <<"c","s","k","y">>>>,
      bounds |-> [kind |-> "none"]]
  >>

\* ------------------------------------------------------------------------
\* Values and comparisons
\* ------------------------------------------------------------------------

\* Characters in ASCII order (the ones the model's strings use).
AsciiOrder ==
  <<" ", "-", "/", "0", "1", "2", "3", "4", "5", "6", "7", "8", "9",
    "A", "B", "C", "D", "E", "F", "G", "H", "I", "J", "K", "L", "M",
    "N", "O", "P", "Q", "R", "S", "T", "U", "V", "W", "X", "Y", "Z",
    "^", "_",
    "a", "b", "c", "d", "e", "f", "g", "h", "i", "j", "k", "l", "m",
    "n", "o", "p", "q", "r", "s", "t", "u", "v", "w", "x", "y", "z">>

Ord(c) == CHOOSE i \in 1..Len(AsciiOrder) : AsciiOrder[i] = c

\* Python's a <= b on str: lexicographic by code point.
RECURSIVE StrLeq(_, _)
StrLeq(a, b) ==
  IF Len(a) = 0 THEN TRUE
  ELSE IF Len(b) = 0 THEN FALSE
  ELSE IF a[1] = b[1] THEN StrLeq(Tail(a), Tail(b))
  ELSE Ord(a[1]) < Ord(b[1])

\* A series statistic (min or max) is a record [kind, v]: kind "num" with an
\* integer v, kind "str" with a string v, or kind "nan" (the min/max of a
\* series without values).
NumStat(n) == [kind |-> "num", v |-> n]
StrStat(x) == [kind |-> "str", v |-> x]
NanStat == [kind |-> "nan"]

\* a >= b / a <= b between a statistic and a bound of the given kind raise
\* TypeError when one is a number (nan included) and the other a str.
CmpRaises(stat, bkind) == (stat.kind = "str") /= (bkind = "str")

\* ser_min >= type_min; every comparison with nan is False.
StatGeq(stat, bkind, bound) ==
  CASE stat.kind = "nan" -> FALSE
    [] stat.kind = "num" -> stat.v >= bound
    [] stat.kind = "str" -> StrLeq(bound, stat.v)

\* ser_max <= type_max
StatLeq(stat, bkind, bound) ==
  CASE stat.kind = "nan" -> FALSE
    [] stat.kind = "num" -> stat.v <= bound
    [] stat.kind = "str" -> StrLeq(stat.v, bound)

\* ------------------------------------------------------------------------
\* CapData.__series_type
\* ------------------------------------------------------------------------

\* One printed line '{} in {} is below|above {} for {}'.
Msg(val, name, rel, bound, key) ==
  [val |-> val, name |-> name, rel |-> rel, bound |-> bound, key |-> key]

\* The result of one call: the returned category, the lines printed, and
\* whether the call raised instead of returning.
Returned(key, out) == [key |-> key, out |-> out, err |-> FALSE]
Raised == [key |-> <<>>, out |-> <<>>, err |-> TRUE]

\* Lines 774-802: the branch taken once a search string of entry e was found
\* in the name.
series_type_found(name, smin, smax, e, bounds_check, warn) ==
  IF bounds_check
  THEN IF e.bounds.kind = "none"
       THEN Raised   \* type_defs[key][1] of an entry without bounds
       ELSE IF CmpRaises(smin, e.bounds.kind) \/ CmpRaises(smax, e.bounds.kind)
       THEN Raised
       ELSE LET min_bool == StatGeq(smin, e.bounds.kind, e.bounds.lo)
                max_bool == StatLeq(smax, e.bounds.kind, e.bounds.hi)
                below == Msg(smin, name, "below", e.bounds.lo, e.key)
                above == Msg(smax, name, "above", e.bounds.hi, e.key)
            IN  IF min_bool /\ max_bool THEN Returned(e.key, <<>>)
                ELSE IF ~warn THEN Returned(e.key, <<>>)
                ELSE IF ~min_bool /\ ~max_bool
                     THEN Returned(e.key, <<below, above>>)
                ELSE IF ~min_bool THEN Returned(e.key, <<below>>)
                ELSE Returned(e.key, <<above>>)
  ELSE Returned(e.key, <<>>)

\* series.name.lower().find(search_str.lower()) == -1
NoMatch(name, search_str) == Find(Lower(name), Lower(search_str)) = -1

\* Lines 766-803: the two nested loops, at key number i and search string
\* number j of that key.
RECURSIVE series_type_loop(_, _, _, _, _, _, _, _)
series_type_loop(name, smin, smax, defs, bounds_check, warn, i, j) ==
  IF i > Len(defs) THEN Returned(<<>>, <<>>)
  ELSE IF j > Len(defs[i].strs)
       THEN series_type_loop(name, smin, smax, defs, bounds_check, warn,
                             i + 1, 1)
  ELSE IF NoMatch(name, defs[i].strs[j])
       THEN series_type_loop(name, smin, smax, defs, bounds_check, warn,
                             i, j + 1)
  ELSE series_type_found(name, smin, smax, defs[i], bounds_check, warn)

series_type(name, smin, smax, defs, bounds_check, warn) ==
  series_type_loop(name, smin, smax, defs, bounds_check, warn, 1, 1)

\* ------------------------------------------------------------------------
\* State
\* ------------------------------------------------------------------------

VARIABLES
  df,          \* CapData.df: the raw table
  df_flt,      \* CapData.df_flt: <<>> for None, <<table>> otherwise
  flt_is_df,   \* df_flt and df are one and the same DataFrame object
  trans,       \* CapData.trans: group key -> list of column names
  trans_keys,  \* CapData.trans_keys
  reg_trans,   \* CapData.reg_trans: regression role -> group key
  summary_ix,  \* CapData.summary_ix
  summary,     \* CapData.summary
  rc,          \* CapData.rc: <<>> for None
  op,          \* the last call made on the object, with its arguments
  ret,         \* what that call returned, raised or warned
  cin,         \* classifier run: the arguments of __series_type
  cres,        \* classifier run: its result, <<>> before the call
  calls,       \* filter calls made since the working table was last pristine
  prev_run     \* the run that the last reset_flt ended, <<>> when none

vars == <<df, df_flt, flt_is_df, trans, trans_keys, reg_trans, summary_ix,
          summary, rc, op, ret, cin, cres, calls, prev_run>>

capvars == <<df, df_flt, flt_is_df, trans, trans_keys, reg_trans,
             summary_ix, summary, rc, op, ret>>
clsvars == <<cin, cres>>
runvars == <<calls, prev_run>>

\* ------------------------------------------------------------------------
\* Classifier runs
\* ------------------------------------------------------------------------

UpperChar(c) ==
  IF \E u \in UpperChars : LowerMap[u] = c
  THEN CHOOSE u \in UpperChars : LowerMap[u] = c
  ELSE c

Upper(s) == [i \in 1..Len(s) |-> UpperChar(s[i])]

\* A string written in one of three letter cases.
InCase(s, case) ==
  CASE case = "asis" -> s
    [] case = "lower" -> Lower(s)
    [] case = "upper" -> Upper(s)

Cases == {"asis", "lower", "upper"}

\* The lookup table named t, its search strings rewritten in a letter case.
DefsNamed(t) ==
  CASE t = "type" -> type_defs
    [] t = "sub" -> sub_type_defs
    [] t = "irr" -> irr_sensors_defs

DefsInCase(t, case) ==
  LET d == DefsNamed(t)
  IN  [i \in 1..Len(d) |->
         [key |-> d[i].key,
          strs |-> [j \in 1..Len(d[i].strs) |-> InCase(d[i].strs[j], case)],
          bounds |-> d[i].bounds]]

\* Column names are built from at most MaxFrags of these pieces.
MaxFrags == 2

NameFrags ==
  { <<"p","o","a">>, <<"T","e","m","p">>, <<"W","I","N","D">>,
    <<"t","A","R","R","A","Y">>, <<"p","f">>, <<"x","y">>, <<"I","n","d","e","x">>,
    <<"r","e","f">> }

RECURSIVE NamesOf(_)
NamesOf(n) ==
  IF n = 0 THEN {<<>>}
  ELSE LET shorter == NamesOf(n - 1)
       IN  shorter \cup {s \o f : s \in shorter, f \in NameFrags}

Names == NamesOf(MaxFrags) \ {<<>>}

\* (min, max) of the classified series: numbers, or the strings of a text
\* column
SeriesStats ==
  { <<NumStat(0), NumStat(1)>>, <<NumStat(0 - 20), NumStat(1600)>>,
    <<StrStat(<<"a">>), StrStat(<<"b">>)>> }

\* (bounds_check, warnings) as __set_trans passes them: the bounds are
\* checked against type_defs only, the other two tables having none
CheckModes(t) ==
  IF t = "type" THEN {<<TRUE, FALSE>>, <<TRUE, TRUE>>} ELSE {<<FALSE, FALSE>>}

ClassifierInputs ==
  {i \in [name : {InCase(n, c) : n \in Names, c \in Cases},
          tbl : {"type", "sub", "irr"},
          tblcase : Cases,
          stats : SeriesStats,
          mode : {<<FALSE, FALSE>>, <<TRUE, FALSE>>, <<TRUE, TRUE>>}] :
     /\ i.mode \in CheckModes(i.tbl)
     /\ i.tbl /= "type" => i.stats = <<NumStat(0), NumStat(1)>>}

NoInput ==
  [name |-> <<"x">>, tbl |-> "type", tblcase |-> "asis",
   stats |-> <<NumStat(0), NumStat(1)>>, mode |-> <<TRUE, FALSE>>]

\* __series_type(series, defs, bounds_check, warnings) on the chosen input
series_type_call ==
  /\ cres = <<>>
  /\ cres' = << series_type(cin.name, cin.stats[1], cin.stats[2],
                            DefsInCase(cin.tbl, cin.tblcase),
                            cin.mode[1], cin.mode[2]) >>
  /\ UNCHANGED <<cin, capvars, runvars>>

\* ------------------------------------------------------------------------
\* Tables (pandas DataFrames with a timestamp index)
\* ------------------------------------------------------------------------

\* A table is [cols, rows]: cols the column names in order, rows the rows in
\* order; a row is [ts, v] with ts its index label and v its cell of every
\* column.  Index labels may repeat.
EmptyFrame == [cols |-> <<>>, rows |-> <<>>]

Range(s) == {s[i] : i \in DOMAIN s}

NRows(t) == Len(t.rows)

\* Timestamps are minutes 0..9 of one hour; '%m/%d/%Y %H %M' of minute t.
Digits == <<"0", "1", "2", "3", "4", "5", "6", "7", "8", "9">>

Strftime(t) ==
  <<"0","1","/","0","1","/","2","0","1","9"," ","0","0"," ","0">>
    \o <<Digits[t + 1]>>

\* Column names of the modelled data files
cPOA == <<"P","O","A">>
cPOA2 == <<"P","O","A","2">>
cGHI == <<"G","H","I">>
cTamb == <<"T","a","m","b">>
cWind == <<"W","i","n","d">>
cXy == <<"x","y">>
cIndex == <<"i","n","d","e","x">>
cPoaQuery == <<"p","o","a">>

\* ------------------------------------------------------------------------
\* Sorting (list.sort() on str and on tuples of str)
\* ------------------------------------------------------------------------

PairLeq(p, q) ==
  IF p[1] = q[1] THEN StrLeq(p[2], q[2]) ELSE StrLeq(p[1], q[1])

RECURSIVE InsertStr(_, _)
InsertStr(x, s) ==
  IF Len(s) = 0 THEN <<x>>
  ELSE IF StrLeq(x, s[1]) THEN <<x>> \o s
  ELSE <<s[1]>> \o InsertStr(x, Tail(s))

RECURSIVE SortStrs(_)
SortStrs(s) ==
  IF Len(s) = 0 THEN <<>> ELSE InsertStr(s[1], SortStrs(Tail(s)))

RECURSIVE InsertPair(_, _)
InsertPair(x, s) ==
  IF Len(s) = 0 THEN <<x>>
  ELSE IF PairLeq(x, s[1]) THEN <<x>> \o s
  ELSE <<s[1]>> \o InsertPair(x, Tail(s))

RECURSIVE SortPairs(_)
SortPairs(s) ==
  IF Len(s) = 0 THEN <<>> ELSE InsertPair(s[1], SortPairs(Tail(s)))

\* sorted(list(S)) of a set of distinct strings
RECURSIVE SortSet(_)
SortSet(S) ==
  IF S = {} THEN <<>>
  ELSE LET m == CHOOSE x \in S : \A y \in S : StrLeq(x, y)
       IN  <<m>> \o SortSet(S \ {m})

\* ------------------------------------------------------------------------
\* CapData.__set_trans
\* ------------------------------------------------------------------------

Dash == <<"-">>
KeyIndex == <<"i","n","d","e","x","-","-">>

\* series.min() / series.max() of column c of table t (t has rows)
\* the cell of a column that a concatenated file does not have (nan)
NaNCell == 0 - 999999

\* Series.min() and Series.max() skip nan cells
ColMin(t, c) ==
  LET all == {t.rows[i].v[c] : i \in 1..NRows(t)}
      vs == IF c = cIndex THEN all ELSE all \ {NaNCell}
  IN  IF vs = {} THEN NanStat
      ELSE IF c = cIndex
      THEN StrStat(CHOOSE x \in vs : \A y \in vs : StrLeq(x, y))
      ELSE NumStat(CHOOSE x \in vs : \A y \in vs : x <= y)

ColMax(t, c) ==
  LET all == {t.rows[i].v[c] : i \in 1..NRows(t)}
      vs == IF c = cIndex THEN all ELSE all \ {NaNCell}
  IN  IF vs = {} THEN NanStat
      ELSE IF c = cIndex
      THEN StrStat(CHOOSE x \in vs : \A y \in vs : StrLeq(y, x))
      ELSE NumStat(CHOOSE x \in vs : \A y \in vs : y <= x)

\* df.apply(self.__series_type, args=(defs,), ...) column by column
ApplySeriesType(t, defs, bounds_check, warn) ==
  [i \in 1..Len(t.cols) |->
     series_type(t.cols[i], ColMin(t, t.cols[i]), ColMax(t, t.cols[i]),
                 defs, bounds_check, warn)]

RECURSIVE Flatten(_)
Flatten(ss) ==
  IF Len(ss) = 0 THEN <<>> ELSE ss[1] \o Flatten(Tail(ss))

\* col_indices.index(name) (1-based here) and col_indices.count(name)
IndexOf(s, x) == CHOOSE i \in 1..Len(s) : s[i] = x /\ \A j \in 1..(i - 1) : s[j] /= x
CountOf(s, x) == Cardinality({i \in 1..Len(s) : s[i] = x})

\* Lines 855-887.  The result is [err, trans, trans_keys, out]; DataFrame.apply
\* on a table without rows hands back a DataFrame, which has no tolist().
set_trans(t, trans_report) ==
  IF NRows(t) = 0 \/ Len(t.cols) = 0
  THEN [err |-> TRUE, trans |-> <<>>, trans_keys |-> <<>>, out |-> <<>>]
  ELSE
  LET col_types == ApplySeriesType(t, type_defs, TRUE, trans_report)
      sub_types == ApplySeriesType(t, sub_type_defs, FALSE, FALSE)
      irr_types == ApplySeriesType(t, irr_sensors_defs, FALSE, FALSE)
      n == Len(t.cols)
      col_indices == [i \in 1..n |->
                        Join(Dash, <<col_types[i].key, sub_types[i].key,
                                     irr_types[i].key>>)]
      names == SortPairs([i \in 1..n |-> <<col_indices[i], t.cols[i]>>])
      orig_names_sorted == [i \in 1..n |-> names[i][2]]
      sorted_indices == SortStrs(col_indices)
      new_trans == [name \in Range(sorted_indices) |->
                      SubSeq(orig_names_sorted,
                             IndexOf(sorted_indices, name),
                             IndexOf(sorted_indices, name)
                               + CountOf(sorted_indices, name) - 1)]
  IN  IF \E i \in 1..n : col_types[i].err
      THEN [err |-> TRUE, trans |-> <<>>, trans_keys |-> <<>>, out |-> <<>>]
      ELSE [err |-> FALSE,
            trans |-> new_trans,
            trans_keys |-> SortSet(DOMAIN new_trans \ {KeyIndex}),
            out |-> Flatten([i \in 1..n |-> col_types[i].out])]

\* ------------------------------------------------------------------------
\* Calls and their outcomes
\* ------------------------------------------------------------------------

\* An optional argument or attribute is <<>> for None and <<x>> otherwise.
None == <<>>
Some(x) == <<x>>

Call(name, args) == [name |-> name, args |-> args]

RetNone == [kind |-> "none", val |-> <<>>, out |-> <<>>]
RetPrinted(out) == [kind |-> "none", val |-> <<>>, out |-> out]
RetValue(x) == [kind |-> "value", val |-> <<x>>, out |-> <<>>]
RetRaised == [kind |-> "raised", val |-> <<>>, out |-> <<>>]
RetWarned == [kind |-> "warned", val |-> <<>>, out |-> <<>>]

\* CapData.name, given to the constructor
Name == "das"

\* ------------------------------------------------------------------------
\* flt_irr
\* ------------------------------------------------------------------------

\* low and high are Python numbers; a fraction such as 0.8 is [n |-> 8,
\* d |-> 10], an absolute value such as 200 is [n |-> 200, d |-> 1].
Num(n, d) == [n |-> n, d |-> d]
Times(q, k) == [n |-> q.n * k, d |-> q.d]
\* q <= x and x <= q for an integer cell x (d > 0)
NumLeqInt(q, x) == q.n <= x * q.d
IntLeqNum(x, q) == x * q.d <= q.n

\* df.rename(columns={irr_col: 'poa'})
Rename(cols, irr_col) ==
  [i \in 1..Len(cols) |-> IF cols[i] = irr_col THEN cPoaQuery ELSE cols[i]]

\* Lines 159-168.  The result is [err, tbl]: the query raises when the renamed
\* table has no column 'poa'.
flt_irr(t, irr_col, low, high, ref_val) ==
  LET lo == IF ref_val /= None THEN Times(low, ref_val[1]) ELSE low
      hi == IF ref_val /= None THEN Times(high, ref_val[1]) ELSE high
      renamed == Rename(t.cols, irr_col)
      \* the column that the name 'poa' resolves to
      src == CHOOSE i \in 1..Len(renamed) :
                 renamed[i] = cPoaQuery
                 /\ \A j \in (i + 1)..Len(renamed) : renamed[j] /= cPoaQuery
      inband(r) == /\ r.v[t.cols[src]] /= NaNCell
                   /\ NumLeqInt(lo, r.v[t.cols[src]])
                   /\ IntLeqNum(r.v[t.cols[src]], hi)
      \* df_renamed.query(flt_str).index: the labels of the rows in the band
      indx == SelectSeq([i \in 1..NRows(t) |-> t.rows[i]], inband)
      \* df.loc[indx, :]: for each label of indx in turn, every row of df
      \* carrying that label
      picked == Flatten([k \in 1..Len(indx) |->
                           SelectSeq(t.rows, LAMBDA r : r.ts = indx[k].ts)])
  IN  IF cPoaQuery \notin Range(renamed)
      THEN [err |-> TRUE, tbl |-> t]
      ELSE [err |-> FALSE, tbl |-> [cols |-> t.cols, rows |-> picked]]

\* ------------------------------------------------------------------------
\* update_summary and CapData.filter_irr
\* ------------------------------------------------------------------------

\* One element of CapData.summary (the dict keyed by the module's columns
\* list) and of CapData.summary_ix.
Entry(pts, removed, arg_str) ==
  [pts_before_filter |-> pts, pts_removed |-> removed,
   filter_arguments |-> arg_str]

NoFilters == <<"no filters">>

\* repr(args) + ', ' + repr(kwargs): determined by the arguments of the call
ArgStr(c) == <<"args", c>>

\* filter_irr taking the first of several poa columns instead of warning
filter_irr_body_picks_first(c, cur) ==
  LET byrole == c.col_name = None
      nokey == byrole /\ ("poa" \notin DOMAIN reg_trans
                          \/ reg_trans["poa"] \notin DOMAIN trans)
      poa_cols == IF byrole /\ ~nokey THEN trans[reg_trans["poa"]] ELSE <<>>
      irr_col == IF byrole THEN poa_cols[1] ELSE c.col_name[1]
      res == flt_irr(cur, irr_col, c.low, c.high, c.ref_val)
  IN  IF nokey THEN [kind |-> "raised", flt |-> cur]
      ELSE IF byrole /\ Len(poa_cols) = 0 THEN [kind |-> "raised", flt |-> cur]
      ELSE IF res.err THEN [kind |-> "raised", flt |-> cur]
      ELSE [kind |-> "done", flt |-> res.tbl]

\* Lines 1152-1168, without the decorator.  The result is [kind, irr, flt]:
\* kind "raised" (KeyError or IndexError resolving the poa role, or the
\* query failing), "warned" (several poa columns), or "done" with flt the
\* filtered table.
filter_irr_body(c, cur) ==
  LET byrole == c.col_name = None
      nokey == byrole /\ ("poa" \notin DOMAIN reg_trans
                          \/ reg_trans["poa"] \notin DOMAIN trans)
      poa_cols == IF byrole /\ ~nokey THEN trans[reg_trans["poa"]] ELSE <<>>
      irr_col == IF byrole THEN poa_cols[1] ELSE c.col_name[1]
      res == flt_irr(cur, irr_col, c.low, c.high, c.ref_val)
  IN  IF nokey THEN [kind |-> "raised", flt |-> cur]
      ELSE IF byrole /\ Len(poa_cols) > 1 THEN [kind |-> "warned", flt |-> cur]
      ELSE IF byrole /\ Len(poa_cols) = 0 THEN [kind |-> "raised", flt |-> cur]
      ELSE IF res.err THEN [kind |-> "raised", flt |-> cur]
      ELSE [kind |-> "done", flt |-> res.tbl]

\* the working table may hold at most this many rows
MaxFltRows == 8
\* filter calls are made while the audit trail is shorter than this
MaxSummary == 2

\* Lines 94-130 around lines 1152-1168: one call of the decorated filter_irr.
filter_irr(c) ==
  /\ Len(summary) < MaxSummary
  /\ op' = Call("filter_irr", c)
  /\ UNCHANGED <<df, trans, trans_keys, reg_trans, rc>>
  /\ IF df_flt = None
     THEN \* self.df_flt.shape on None: AttributeError before anything else
          /\ ret' = RetRaised
          /\ UNCHANGED <<df_flt, flt_is_df, summary_ix, summary>>
     ELSE LET cur == df_flt[1]
              first == NRows(cur) = 0
              pts_before == IF first THEN NRows(df) ELSE NRows(cur)
              ix1 == IF first THEN Append(summary_ix, <<Name, "count">>)
                     ELSE summary_ix
              sm1 == IF first
                     THEN Append(summary, Entry(pts_before, 0, NoFilters))
                     ELSE summary
              body == filter_irr_body(c, cur)
              write == body.kind = "done" /\ c.inplace
              after == IF write THEN body.flt ELSE cur
              pts_after == NRows(after)
          IN  /\ NRows(body.flt) <= MaxFltRows
              /\ IF body.kind = "raised"
                 THEN /\ ret' = RetRaised
                      /\ summary_ix' = ix1
                      /\ summary' = sm1
                      /\ UNCHANGED <<df_flt, flt_is_df>>
                 ELSE /\ ret' = IF body.kind = "warned" THEN RetWarned
                                ELSE IF c.inplace THEN RetNone
                                ELSE RetValue(body.flt)
                      /\ df_flt' = Some(after)
                      /\ flt_is_df' = IF write THEN FALSE ELSE flt_is_df
                      /\ summary_ix' = Append(ix1, <<Name, "filter_irr">>)
                      /\ summary' = Append(sm1,
                                       Entry(pts_after, pts_before - pts_after,
                                             ArgStr(c)))

\* ------------------------------------------------------------------------
\* CapData.reset_flt, set_reg_trans
\* ------------------------------------------------------------------------

\* reset_flt forgetting to empty the audit trail
reset_flt_keeps_trail ==
  /\ op' = Call("reset_flt", <<>>)
  /\ ret' = RetNone
  /\ df_flt' = Some(df)
  /\ flt_is_df' = FALSE
  /\ UNCHANGED <<summary_ix, summary>>
  /\ UNCHANGED <<df, trans, trans_keys, reg_trans, rc>>

\* reset_flt emptying the audit trail without restoring the working table
reset_flt_keeps_rows ==
  /\ op' = Call("reset_flt", <<>>)
  /\ ret' = RetNone
  /\ df_flt' = IF df_flt = None THEN Some(df) ELSE df_flt
  /\ flt_is_df' = FALSE
  /\ summary_ix' = <<>>
  /\ summary' = <<>>
  /\ UNCHANGED <<df, trans, trans_keys, reg_trans, rc>>

\* reset_flt binding df_flt to the raw table itself instead of a copy
reset_flt_no_copy ==
  /\ op' = Call("reset_flt", <<>>)
  /\ ret' = RetNone
  /\ df_flt' = Some(df)
  /\ flt_is_df' = TRUE
  /\ summary_ix' = <<>>
  /\ summary' = <<>>
  /\ UNCHANGED <<df, trans, trans_keys, reg_trans, rc>>

\* Lines 1124-1126
reset_flt ==
  /\ op' = Call("reset_flt", <<>>)
  /\ ret' = RetNone
  /\ df_flt' = Some(df)
  /\ flt_is_df' = FALSE
  /\ summary_ix' = <<>>
  /\ summary' = <<>>
  /\ UNCHANGED <<df, trans, trans_keys, reg_trans, rc>>

Roles == {"power", "poa", "t_amb", "w_vel"}

\* Lines 461-464; r maps each of the four roles to a group key
set_reg_trans(r) ==
  /\ op' = Call("set_reg_trans", r)
  /\ ret' = RetNone
  /\ reg_trans' = [k \in Roles |-> r[k]]
  /\ UNCHANGED <<df, df_flt, flt_is_df, trans, trans_keys, summary_ix,
                 summary, rc>>

\* ------------------------------------------------------------------------
\* CapData.load_data
\* ------------------------------------------------------------------------

\* all_sensors['index'] = ix_ser.apply(strftime) (lines 713-714)
AddIndexCol(t) ==
  [cols |-> IF cIndex \in Range(t.cols) THEN t.cols
            ELSE Append(t.cols, cIndex),
   rows |-> [i \in 1..NRows(t) |->
               [ts |-> t.rows[i].ts,
                v |-> [c \in Range(t.cols) \cup {cIndex} |->
                         IF c = cIndex THEN Strftime(t.rows[i].ts)
                         ELSE t.rows[i].v[c]]]]]

\* Lines 713-731, all_sensors being the table read from the file(s).
load_data(all_sensors, with_trans, trans_report) ==
  LET loaded == AddIndexCol(all_sensors)
      st == set_trans(loaded, trans_report)
  IN  /\ op' = Call("load_data", <<all_sensors, with_trans, trans_report>>)
      /\ df' = loaded
      /\ UNCHANGED <<reg_trans, summary_ix, summary, rc>>
      /\ IF with_trans /\ st.err
         THEN \* __set_trans raised: self.df is set, nothing after it ran
              /\ ret' = RetRaised
              /\ flt_is_df' = FALSE
              /\ UNCHANGED <<df_flt, trans, trans_keys>>
         ELSE /\ ret' = IF with_trans THEN RetPrinted(st.out) ELSE RetNone
              /\ trans' = IF with_trans THEN st.trans ELSE trans
              /\ trans_keys' = IF with_trans THEN st.trans_keys ELSE trans_keys
              /\ df_flt' = Some(loaded)
              /\ flt_is_df' = FALSE

\* str.endswith(suffix)
EndsWith(s, suffix) ==
  /\ Len(s) >= Len(suffix)
  /\ SubSeq(s, Len(s) - Len(suffix) + 1, Len(s)) = suffix

files_to_read_lower_only(listing) ==
  SelectSeq(listing, LAMBDA f : EndsWith(f.name, <<".", "c", "s", "v">>))

\* Lines 681-686: the entries of the listing that end in '.csv' or '.CSV'.
\* An entry is [name, data], data being the table its file reads as.
files_to_read(listing) ==
  SelectSeq(listing, LAMBDA f : EndsWith(f.name, <<".", "c", "s", "v">>)
                               \/ EndsWith(f.name, <<".", "C", "S", "V">>))

\* Lines 692 and 701: the file is skipped
Skipped(filename, load_pvsyst) ==
  LET at == Find(Lower(filename), <<"p", "v", "s", "y", "s", "t">>)
  IN  IF load_pvsyst THEN at = -1 ELSE at /= -1

\* pd.concat([a, b], axis=0): the rows of a, then the rows of b, over the
\* columns of both, a cell of a column the row's table lacks being nan.
\* Columns that differ are joined sorted or in order of appearance,
\* depending on the pandas at hand (sort_cols).
Concat(a, b, sort_cols) ==
  LET extra == SelectSeq(b.cols, LAMBDA c : c \notin Range(a.cols))
      cols == IF Len(a.cols) = 0 THEN b.cols
              ELSE IF a.cols = b.cols THEN a.cols
              ELSE IF sort_cols THEN SortStrs(a.cols \o extra)
              ELSE a.cols \o extra
      widen(r) == [ts |-> r.ts,
                   v |-> [c \in Range(cols) |->
                            IF c \in DOMAIN r.v THEN r.v[c] ELSE NaNCell]]
  IN  [cols |-> cols,
       rows |-> [i \in 1..NRows(a) |-> widen(a.rows[i])]
                  \o [i \in 1..NRows(b) |-> widen(b.rows[i])]]

\* Lines 688-706: the loop over files_to_read from its k-th file on, acc
\* being [all_sensors, out] so far; a printed line 'Read: ' + filename or
\* 'Skipped file: ' + filename is the record [line, file]
RECURSIVE ReadFiles(_, _, _, _, _)
ReadFiles(files, k, load_pvsyst, sort_cols, acc) ==
  IF k > Len(files) THEN acc
  ELSE IF Skipped(files[k].name, load_pvsyst)
       THEN ReadFiles(files, k + 1, load_pvsyst, sort_cols,
                      [all_sensors |-> acc.all_sensors,
                       out |-> Append(acc.out,
                                      [line |-> "Skipped file",
                                       file |-> files[k].name])])
  ELSE ReadFiles(files, k + 1, load_pvsyst, sort_cols,
                 [all_sensors |-> Concat(acc.all_sensors, files[k].data,
                                         sort_cols),
                  out |-> Append(acc.out, [line |-> "Read",
                                           file |-> files[k].name])])

\* Lines 680-731 with fname=None: listing is what os.listdir(path) returns
load_data_dir(listing, load_pvsyst, sort_cols, with_trans, trans_report) ==
  LET rd == ReadFiles(files_to_read(listing), 1, load_pvsyst, sort_cols,
                      [all_sensors |-> EmptyFrame, out |-> <<>>])
      loaded == AddIndexCol(rd.all_sensors)
      st == set_trans(loaded, trans_report)
  IN  /\ op' = Call("load_data",
                    <<listing, load_pvsyst, with_trans, trans_report>>)
      /\ df' = loaded
      /\ UNCHANGED <<reg_trans, summary_ix, summary, rc>>
      /\ IF with_trans /\ st.err
         THEN /\ ret' = [RetRaised EXCEPT !.out = rd.out]
              /\ flt_is_df' = FALSE
              /\ UNCHANGED <<df_flt, trans, trans_keys>>
         ELSE /\ ret' = RetPrinted(IF with_trans THEN rd.out \o st.out
                                   ELSE rd.out)
              /\ trans' = IF with_trans THEN st.trans ELSE trans
              /\ trans_keys' = IF with_trans THEN st.trans_keys ELSE trans_keys
              /\ df_flt' = Some(loaded)
              /\ flt_is_df' = FALSE

\* ------------------------------------------------------------------------
\* CapData.drop_cols, CapData.__comb_trans_keys and plot
\* ------------------------------------------------------------------------

\* list.remove(x) on a list holding x: the first occurrence goes
RemoveFirst(s, x) ==
  LET i == IndexOf(s, x)
  IN  SubSeq(s, 1, i - 1) \o SubSeq(s, i + 1, Len(s))

\* the inner loop of lines 904-909 over the columns from number k on
RECURSIVE RemoveCols(_, _, _)
RemoveCols(value, columns, k) ==
  IF k > Len(columns) THEN value
  ELSE IF columns[k] \in Range(value)
       THEN RemoveCols(RemoveFirst(value, columns[k]), columns, k + 1)
       ELSE RemoveCols(value, columns, k + 1)

\* df.drop(columns, axis=1): the table without the named columns
DropFrame(t, columns) ==
  LET kept(c) == c \notin Range(columns)
      cs == SelectSeq(t.cols, kept)
  IN  [cols |-> cs,
       rows |-> [i \in 1..NRows(t) |->
                   [ts |-> t.rows[i].ts,
                    v |-> [c \in Range(cs) |-> t.rows[i].v[c]]]]]

drop_cols_keeps_trans(columns) ==
  /\ op' = Call("drop_cols", columns)
  /\ UNCHANGED <<trans, trans_keys, reg_trans, summary_ix, summary, rc,
                 flt_is_df>>
  /\ IF Range(columns) \subseteq Range(df.cols)
     THEN /\ ret' = RetNone
          /\ df' = DropFrame(df, columns)
          /\ df_flt' = IF flt_is_df THEN Some(df') ELSE df_flt
     ELSE /\ ret' = RetRaised
          /\ UNCHANGED <<df, df_flt>>

\* Lines 903-910.  The loop over trans runs first; DataFrame.drop then raises
\* KeyError, dropping nothing, when a label is not a column.
drop_cols(columns) ==
  /\ op' = Call("drop_cols", columns)
  /\ trans' = [key \in DOMAIN trans |-> RemoveCols(trans[key], columns, 1)]
  /\ UNCHANGED <<trans_keys, reg_trans, summary_ix, summary, rc, flt_is_df>>
  /\ IF Range(columns) \subseteq Range(df.cols)
     THEN /\ ret' = RetNone
          /\ df' = DropFrame(df, columns)
          /\ df_flt' = IF flt_is_df THEN Some(df') ELSE df_flt
     ELSE /\ ret' = RetRaised
          /\ UNCHANGED <<df, df_flt>>

\* grp + '_comb'
CombSuffix == <<"_","c","o","m","b">>

\* Lines 964-979 as a function of (trans, trans_keys)
comb_trans_keys(tr, keys, grp) ==
  LET hit(key) == Find(key, grp) /= -1
      comb_keys == SelectSeq(keys, hit)
      cols == Flatten([i \in 1..Len(comb_keys) |-> tr[comb_keys[i]]])
      grp_comb == grp \o CombSuffix
  IN  IF grp_comb \notin Range(keys)
      THEN [trans |-> [k \in DOMAIN tr \cup {grp_comb} |->
                         IF k = grp_comb THEN cols ELSE tr[k]],
            trans_keys |-> Append(keys, grp_comb)]
      ELSE [trans |-> tr, trans_keys |-> keys]

\* lines 1033-1034: the loop over merge_grps from group number k on
RECURSIVE MergeGroups(_, _, _, _)
MergeGroups(tr, keys, merge_grps, k) ==
  IF k > Len(merge_grps) THEN [trans |-> tr, trans_keys |-> keys]
  ELSE LET one == comb_trans_keys(tr, keys, merge_grps[k])
       IN  MergeGroups(one.trans, one.trans_keys, merge_grps, k + 1)

\* plot(merge_grps=...): its effect on the object is the group merging
plot(merge_grps) ==
  LET m == MergeGroups(trans, trans_keys, merge_grps, 1)
  IN  /\ op' = Call("plot", merge_grps)
      /\ ret' = RetNone
      /\ trans' = m.trans
      /\ trans_keys' = m.trans_keys
      /\ UNCHANGED <<df, df_flt, flt_is_df, reg_trans, summary_ix, summary,
                     rc>>

\* ------------------------------------------------------------------------
\* CapData.view, rview, get_summary
\* ------------------------------------------------------------------------

\* df[keys]: the named columns in the order asked for
Select(t, keys) ==
  [cols |-> keys,
   rows |-> [i \in 1..NRows(t) |->
               [ts |-> t.rows[i].ts,
                v |-> [c \in Range(keys) |-> t.rows[i].v[c]]]]]

\* A view argument: [kind |-> "int", i], [kind |-> "str", s], or
\* [kind |-> "list", l] with l a list of such int and str arguments.
IntKey(i) == [kind |-> "int", i |-> i]
StrKey(s) == [kind |-> "str", s |-> s]
ListKey(l) == [kind |-> "list", l |-> l]

\* self.trans[self.trans_keys[i]] / self.trans[s]; <<>> when the lookup raises
KeyCols(k) ==
  IF k.kind = "int"
  THEN IF k.i < Len(trans_keys) /\ trans_keys[k.i + 1] \in DOMAIN trans
       THEN Some(trans[trans_keys[k.i + 1]]) ELSE None
  ELSE IF k.s \in DOMAIN trans THEN Some(trans[k.s]) ELSE None

\* Lines 923-935.  <<>> when the call raises, <<keys>> otherwise.
view_keys(tkey) ==
  IF tkey.kind = "int" THEN KeyCols(tkey)
  ELSE IF tkey.kind = "list" /\ Len(tkey.l) > 1
       THEN IF \E i \in 1..Len(tkey.l) : KeyCols(tkey.l[i]) = None
            THEN None
            ELSE Some(Flatten([i \in 1..Len(tkey.l) |-> KeyCols(tkey.l[i])[1]]))
  ELSE IF tkey.kind = "str" /\ tkey.s \in Range(trans_keys)
       THEN KeyCols(tkey)
  ELSE None   \* keys is never bound: UnboundLocalError

view(tkey) ==
  LET keys == view_keys(tkey)
  IN  /\ op' = Call("view", tkey)
      /\ ret' = IF keys = None \/ ~(Range(keys[1]) \subseteq Range(df.cols))
                THEN RetRaised
                ELSE RetValue(Select(df, keys[1]))
      /\ UNCHANGED <<df, df_flt, flt_is_df, trans, trans_keys, reg_trans,
                     summary_ix, summary, rc>>

\* An rview argument: [kind |-> "str", s] or [kind |-> "list", l] with l a
\* list of role names.
All == "all"

\* Lines 948-954: the group keys asked for; <<>> when the lookup raises
rview_keys(ind_var) ==
  IF ind_var.kind = "str" /\ ind_var.s = All
  THEN \* list(self.reg_trans.values()), in the order set_reg_trans wrote them
       IF DOMAIN reg_trans = {} THEN Some(<<>>)
       ELSE Some(<<reg_trans["power"], reg_trans["poa"], reg_trans["t_amb"],
                   reg_trans["w_vel"]>>)
  ELSE IF ind_var.kind = "list" /\ Len(ind_var.l) > 1
       THEN IF Range(ind_var.l) \subseteq DOMAIN reg_trans
            THEN Some([i \in 1..Len(ind_var.l) |-> reg_trans[ind_var.l[i]]])
            ELSE None
  ELSE IF ind_var.kind = "str" /\ ind_var.s \in Roles
       THEN IF ind_var.s \in DOMAIN reg_trans
            THEN Some(<<reg_trans[ind_var.s]>>) ELSE None
  ELSE None   \* keys is never bound: UnboundLocalError

\* Lines 948-962.  <<>> when the call raises, <<table>> otherwise.
rview_result(ind_var, filtered_data) ==
  LET keys == rview_keys(ind_var)
      lst == Flatten([i \in 1..Len(keys[1]) |-> trans[keys[1][i]]])
      src == IF filtered_data THEN df_flt[1] ELSE df
  IN  IF keys = None THEN None
      ELSE IF ~(Range(keys[1]) \subseteq DOMAIN trans) THEN None
      ELSE IF filtered_data /\ df_flt = None THEN None
      ELSE IF ~(Range(lst) \subseteq Range(src.cols)) THEN None
      ELSE Some(Select(src, lst))

rview(ind_var, filtered_data) ==
  LET res == rview_result(ind_var, filtered_data)
  IN  /\ op' = Call("rview", <<ind_var, filtered_data>>)
      /\ ret' = IF res = None THEN RetRaised ELSE RetValue(res[1])
      /\ UNCHANGED <<df, df_flt, flt_is_df, trans, trans_keys, reg_trans,
                     summary_ix, summary, rc>>

\* Lines 1187-1193: MultiIndex.from_tuples of an empty list raises TypeError,
\* which is caught and reported.
NoFiltersRun == <<"No filters have been run.">>

get_summary ==
  /\ op' = Call("get_summary", <<>>)
  /\ ret' = IF Len(summary_ix) = 0 THEN RetPrinted(NoFiltersRun)
            ELSE RetValue([index |-> summary_ix, data |-> summary])
  /\ UNCHANGED <<df, df_flt, flt_is_df, trans, trans_keys, reg_trans,
                 summary_ix, summary, rc>>

\* ------------------------------------------------------------------------
\* CapData.rep_cond (irr_bal=False, the default func)
\* ------------------------------------------------------------------------

cTAmbRole == <<"t","_","a","m","b">>
cWVel == <<"w","_","v","e","l">>

RECURSIVE InsertInt(_, _)
InsertInt(x, s) ==
  IF Len(s) = 0 THEN <<x>>
  ELSE IF x <= s[1] THEN <<x>> \o s
  ELSE <<s[1]>> \o InsertInt(x, Tail(s))

RECURSIVE SortInts(_)
SortInts(s) ==
  IF Len(s) = 0 THEN <<>> ELSE InsertInt(s[1], SortInts(Tail(s)))

RECURSIVE Sum(_)
Sum(s) == IF Len(s) = 0 THEN 0 ELSE s[1] + Sum(Tail(s))

\* np.percentile(x, 60, interpolation='nearest') of n >= 1 values: the sorted
\* value at the index nearest to 0.6 * (n - 1), which is never halfway.
perc_wrap60(x) == SortInts(x)[((6 * Len(x) - 1) \div 10) + 1]

\* 'mean' of n >= 1 values, as the fraction sum / n
Mean(x) == Num(Sum(x), Len(x))

\* the values of the column named c of table t (the last column of that name)
ColValues(t, names, c) ==
  LET i == CHOOSE i \in 1..Len(names) :
             names[i] = c /\ \A j \in (i + 1)..Len(names) : names[j] /= c
  IN  [k \in 1..NRows(t) |-> t.rows[k].v[t.cols[i]]]

\* nan, among the fractions [n, d]
NaN == Num(0, 0)

\* df.agg(func) / df_grpd.agg(func) with the default func on the rows of t,
\* the columns carrying the given names: one row of reporting conditions
\* labelled ix.  The aggregates of no rows are nan.
AggRow(t, names, ix) ==
  IF NRows(t) = 0
  THEN [ix |-> ix, poa |-> NaN, t_amb |-> NaN, w_vel |-> NaN]
  ELSE [ix |-> ix,
        poa |-> Num(perc_wrap60(ColValues(t, names, cPoaQuery)), 1),
        t_amb |-> Mean(ColValues(t, names, cTAmbRole)),
        w_vel |-> Mean(ColValues(t, names, cWVel))]

\* the rows of t read in period b of f minutes
BinRows(t, f, b) ==
  [cols |-> t.cols,
   rows |-> SelectSeq(t.rows, LAMBDA r : r.ts \div f = b)]

\* rep_cond writing the given w_vel into the first row only when a period
\* frequency is given
rep_cond_result_first_row_only(freq, w_vel, empty_raises) ==
  LET sel == rview_result(ListKey(<<"poa", "t_amb", "w_vel">>), TRUE)
      t == sel[1]
      \* df.rename(columns={df.columns[0]: 'poa', df.columns[1]: 't_amb',
      \*                    df.columns[2]: 'w_vel'}); a later key of the
      \* dict replaces an equal earlier one
      names == [i \in 1..Len(t.cols) |->
                  IF t.cols[i] = t.cols[3] THEN cWVel
                  ELSE IF t.cols[i] = t.cols[2] THEN cTAmbRole
                  ELSE IF t.cols[i] = t.cols[1] THEN cPoaQuery
                  ELSE t.cols[i]]
      override(r) == IF w_vel = None THEN r
                     ELSE [r EXCEPT !.w_vel = Num(w_vel[1], 1)]
      bins == {t.rows[k].ts \div freq[1] : k \in 1..NRows(t)}
      first == CHOOSE x \in bins : \A y \in bins : x <= y
      last == CHOOSE x \in bins : \A y \in bins : y <= x
      grouped == [k \in 1..(last - first + 1) |->
                    (IF k = 1 THEN override(AggRow(BinRows(t, freq[1], first + k - 1), names,
                                    (first + k - 1) * freq[1]))
                     ELSE AggRow(BinRows(t, freq[1], first + k - 1), names,
                                 (first + k - 1) * freq[1]))]
  IN  IF sel = None THEN None
      ELSE IF Len(t.cols) < 3 THEN None          \* df.columns[2]: IndexError
      ELSE IF ~({cPoaQuery, cTAmbRole, cWVel} \subseteq Range(names)) THEN None
      ELSE IF NRows(t) = 0 /\ empty_raises THEN None
      ELSE IF freq = None THEN Some(<<override(AggRow(t, names, 0))>>)
      ELSE IF NRows(t) = 0 THEN Some(<<>>)
      ELSE IF empty_raises /\ bins /= first..last THEN None
      ELSE Some(grouped)

\* Lines 1239-1306 with irr_bal=False, the default func and freq either None
\* or a number of minutes (an offset alias outside check_freqs).  <<>> when
\* the call raises, else <<rows>>, the rows [ix, poa, t_amb, w_vel] of RCs_df.
\* empty_raises tells what the percentile of no values does in the build at
\* hand: it raises, or it gives nan.
rep_cond_result(freq, w_vel, empty_raises) ==
  LET sel == rview_result(ListKey(<<"poa", "t_amb", "w_vel">>), TRUE)
      t == sel[1]
      \* df.rename(columns={df.columns[0]: 'poa', df.columns[1]: 't_amb',
      \*                    df.columns[2]: 'w_vel'}); a later key of the
      \* dict replaces an equal earlier one
      names == [i \in 1..Len(t.cols) |->
                  IF t.cols[i] = t.cols[3] THEN cWVel
                  ELSE IF t.cols[i] = t.cols[2] THEN cTAmbRole
                  ELSE IF t.cols[i] = t.cols[1] THEN cPoaQuery
                  ELSE t.cols[i]]
      override(r) == IF w_vel = None THEN r
                     ELSE [r EXCEPT !.w_vel = Num(w_vel[1], 1)]
      bins == {t.rows[k].ts \div freq[1] : k \in 1..NRows(t)}
      first == CHOOSE x \in bins : \A y \in bins : x <= y
      last == CHOOSE x \in bins : \A y \in bins : y <= x
      grouped == [k \in 1..(last - first + 1) |->
                    override(AggRow(BinRows(t, freq[1], first + k - 1), names,
                                    (first + k - 1) * freq[1]))]
  IN  IF sel = None THEN None
      ELSE IF Len(t.cols) < 3 THEN None          \* df.columns[2]: IndexError
      ELSE IF ~({cPoaQuery, cTAmbRole, cWVel} \subseteq Range(names)) THEN None
      ELSE IF NRows(t) = 0 /\ empty_raises THEN None
      ELSE IF freq = None THEN Some(<<override(AggRow(t, names, 0))>>)
      ELSE IF NRows(t) = 0 THEN Some(<<>>)
      ELSE IF empty_raises /\ bins /= first..last THEN None
      ELSE Some(grouped)

\* the percentile of no values: IndexError in one numpy, nan in another
EmptyOutcomes == BOOLEAN

\* Lines 1239-1313 with irr_bal=False
rep_cond(freq, w_vel, inplace) ==
  /\ op' = Call("rep_cond", <<freq, w_vel, inplace>>)
  /\ UNCHANGED <<df, df_flt, flt_is_df, trans, trans_keys, reg_trans,
                 summary_ix, summary>>
  /\ \E empty_raises \in EmptyOutcomes :
       LET res == rep_cond_result(freq, w_vel, empty_raises)
       IN  IF res = None
           THEN ret' = RetRaised /\ UNCHANGED rc
           ELSE IF inplace
                THEN ret' = RetPrinted(res) /\ rc' = res
                ELSE ret' = RetValue(res[1]) /\ UNCHANGED rc

\* ------------------------------------------------------------------------
\* Inputs
\* ------------------------------------------------------------------------

\* timestamps are 0..MaxTs, a data file has at most MaxRows rows
MaxTs == 1
MaxRows == 2

\* irradiance readings: below the irr bounds, inside them, above them
IrrVals == {0 - 20, 1000, 1600}

ColVals(c) ==
  CASE c = cPOA -> IrrVals
    [] c = cPOA2 -> {1000}
    [] c = cGHI -> {900}
    [] c = cTamb -> {25}
    [] c = cWind -> {3}
    [] c = cXy -> {0}

AllVals == IrrVals \cup {900, 25, 3, 0}

\* column layouts of the data files
LayoutA == <<cPOA, cTamb, cWind>>
LayoutB == <<cPOA, cPOA2, cTamb, cWind>>
LayoutC == <<cPOA, cGHI, cXy>>

RowsOf(layout) ==
  {[ts |-> t, v |-> f] :
     t \in 0..MaxTs,
     f \in {g \in [Range(layout) -> AllVals] :
              \A c \in Range(layout) : g[c] \in ColVals(c)}}

RECURSIVE SeqsUpTo(_, _)
SeqsUpTo(S, n) ==
  IF n = 0 THEN {<<>>}
  ELSE LET shorter == SeqsUpTo(S, n - 1)
       IN  shorter \cup {Append(s, x) : s \in shorter, x \in S}

\* Row r[i] is read at a minute some earlier row was read at, or at the
\* first minute no earlier row was read at: the code uses the index labels
\* only to tell rows apart (df.loc[indx, :]), so tables that differ by a
\* renaming of their labels behave alike.
LabelsInOrder(r) ==
  \A i \in 1..Len(r) :
    \/ r[i].ts = 0
    \/ \E j \in 1..(i - 1) : r[j].ts = r[i].ts - 1

\* The tables a load can read with the given layout and at most n rows.  A
\* file that is read has at least one row (load_das takes all_data.index[0]);
\* the table without rows is the one of a directory without eligible files,
\* the EmptyFrame.
TablesOf(layout, n) ==
  {[cols |-> layout, rows |-> r] :
     r \in {q \in SeqsUpTo(RowsOf(layout), n) \ {<<>>} : LabelsInOrder(q)}}

kIrrPoa == <<"i","r","r","-","p","o","a","-">>
kTempAmb == <<"t","e","m","p","-","a","m","b","-">>
kWind == <<"w","i","n","d","-","-">>
gIrr == <<"i","r","r">>
gTemp == <<"t","e","m","p">>

\* set_reg_trans(poa='irr-poa-', t_amb='temp-amb-', w_vel='wind--')
RegTransChoices ==
  { [k \in Roles |->
       CASE k = "power" -> <<>>
         [] k = "poa" -> kIrrPoa
         [] k = "t_amb" -> kTempAmb
         [] k = "w_vel" -> kWind] }

\* filter_irr(low, high, ref_val=, col_name=, inplace=)
FilterCall(low, high, ref_val, col_name, inplace) ==
  [low |-> low, high |-> high, ref_val |-> ref_val, col_name |-> col_name,
   inplace |-> inplace]

Bands ==
  { <<Num(8, 10), Num(12, 10), None>>,
    <<Num(8, 10), Num(12, 10), Some(1000)>>,
    <<Num(900, 1), Num(1600, 1), None>> }

FilterCalls ==
  {FilterCall(b[1], b[2], b[3], col, TRUE) :
     b \in Bands, col \in {None, Some(cPOA)}}
  \cup
  {FilterCall(Num(8, 10), Num(12, 10), Some(1000), col, FALSE) :
     col \in {None, Some(cPOA)}}

\* ------------------------------------------------------------------------
\* Specifications
\* ------------------------------------------------------------------------

EmptyDict == [k \in {} |-> <<>>]

\* CapData.__init__ (lines 427-441)
InitCap ==
  /\ df = EmptyFrame
  /\ df_flt = None
  /\ flt_is_df = FALSE
  /\ trans = EmptyDict
  /\ trans_keys = <<>>
  /\ reg_trans = EmptyDict
  /\ summary_ix = <<>>
  /\ summary = <<>>
  /\ rc = None
  /\ op = Call("init", <<>>)
  /\ ret = RetNone

Init ==
  /\ InitCap
  /\ cin = NoInput
  /\ cres = <<>>
  /\ calls = <<>>
  /\ prev_run = <<>>

\* no load_data call has been made yet
Fresh == op.name = "init" \/ (op.name = "set_reg_trans" /\ df_flt = None /\ df = EmptyFrame)

\* The container under one load followed by filtering and resetting.
Load ==
  /\ Fresh
  /\ \E t \in TablesOf(LayoutA, MaxRows) \cup TablesOf(LayoutB, MaxRows)
                \cup {EmptyFrame} :
       load_data(t, TRUE, TRUE)
  /\ UNCHANGED <<clsvars, runvars>>

SetRegTrans ==
  /\ \E r \in RegTransChoices : set_reg_trans(r)
  /\ UNCHANGED <<clsvars, runvars>>

Filter ==
  /\ \E c \in FilterCalls : filter_irr(c)
  /\ UNCHANGED <<clsvars, runvars>>

Reset ==
  /\ reset_flt
  /\ UNCHANGED <<clsvars, runvars>>

Next == Load \/ SetRegTrans \/ Filter \/ Reset

Spec == Init /\ [][Next]_vars

\* ------------------------------------------------------------------------
\* Properties of filter_irr and the audit trail
\* ------------------------------------------------------------------------

\* this step is a filter_irr call that ran in place to its end
InPlaceFilterStep ==
  /\ op'.name = "filter_irr"
  /\ op'.args.inplace
  /\ ret'.kind = "none"
  /\ summary' /= summary

\* this step is a filter_irr call that appended its audit entry
FilterEntryStep ==
  /\ op'.name = "filter_irr"
  /\ ret'.kind /= "raised"
  /\ summary' /= summary

\* the irradiance column a call names, directly or through the poa role
IrrColOf(c) ==
  IF c.col_name /= None THEN c.col_name[1] ELSE trans[reg_trans["poa"]][1]

\* x lies in [low * r, high * r], r being ref_val, or 1 when it is omitted
InBand(c, x) ==
  LET r == IF c.ref_val = None THEN 1 ELSE c.ref_val[1]
  IN  /\ c.low.n * r <= x * c.low.d
      /\ x * c.high.d <= c.high.n * r

\* the rows of the working table that the call is to keep, in order
RowsInBand(c) ==
  SelectSeq(df_flt[1].rows, LAMBDA r : InBand(c, r.v[IrrColOf(c)]))

Occurrences(s, x) == Cardinality({i \in 1..Len(s) : s[i] = x})

\* C1: an in-place filter_irr leaves in the working table exactly the rows of
\* the previous working table whose irradiance lies in the band.
C1_ExactBand ==
  [][InPlaceFilterStep => df_flt'[1].rows = RowsInBand(op'.args)]_vars

\* C2: the rows-removed value of the entry a filter call appends is the row
\* count of the working table before the call minus the one after it.
C2_RemovedIsDifference ==
  [][FilterEntryStep =>
       summary'[Len(summary')].pts_removed
         = NRows(df_flt[1]) - NRows(df_flt'[1])]_vars

\* the audit trail is empty and the working table is the loaded raw table
Pristine == df_flt = Some(df) /\ summary = <<>> /\ summary_ix = <<>>

\* C3: the first filter call from a pristine state appends the initial entry
\* and its own entry, every later call exactly one entry, and the initial
\* entry is first and occurs once.
C3_TrailShape ==
  [][FilterEntryStep =>
       /\ Len(summary') = IF Pristine THEN 2 ELSE Len(summary) + 1
       /\ summary_ix'[1] = <<Name, "count">>
       /\ Occurrences(summary_ix', <<Name, "count">>) = 1]_vars

\* C4: after reset_flt the working table equals the raw table and the audit
\* trail is empty.
C4_ResetRestores ==
  op.name = "reset_flt" =>
    /\ df_flt = Some(df)
    /\ summary = <<>>
    /\ summary_ix = <<>>

\* a reset of a loaded table
C4_Witness ==
  /\ op.name = "reset_flt"
  /\ NRows(df) = 2
  /\ df_flt = Some(df)

\* C7: an in-place filter_irr only narrows the working table: no more rows
\* than before, no row more often than before, the same columns.
C7_OnlyNarrows ==
  [][InPlaceFilterStep =>
       /\ NRows(df_flt'[1]) <= NRows(df_flt[1])
       /\ \A r \in Range(df_flt'[1].rows) :
            Occurrences(df_flt'[1].rows, r) <= Occurrences(df_flt[1].rows, r)
       /\ df_flt'[1].cols = df_flt[1].cols]_vars

\* ------------------------------------------------------------------------
\* Re-running a filter sequence after a reset
\* ------------------------------------------------------------------------

RerunCalls ==
  {FilterCall(b[1], b[2], b[3], Some(cPOA), TRUE) : b \in Bands}

\* The filter calls made on the working table since it was last pristine are
\* kept in calls; reset_flt files them, with the trail and row count they led to,
\* as the previous run.
RunRecord ==
  [calls |-> calls, summary_ix |-> summary_ix, summary |-> summary,
   rows |-> NRows(df_flt[1])]

LoadR ==
  /\ Fresh
  /\ \E t \in TablesOf(LayoutA, MaxRows) : load_data(t, TRUE, TRUE)
  /\ calls' = <<>>
  /\ prev_run' = None
  /\ UNCHANGED clsvars

FilterR ==
  /\ \E c \in RerunCalls :
       /\ filter_irr(c)
       /\ calls' = IF df_flt = None THEN calls ELSE Append(calls, c)
  /\ UNCHANGED <<clsvars, prev_run>>

ResetR ==
  /\ reset_flt
  /\ prev_run' = IF df_flt = None THEN None ELSE Some(RunRecord)
  /\ calls' = <<>>
  /\ UNCHANGED clsvars

NextRerun == LoadR \/ FilterR \/ ResetR

SpecRerun == Init /\ [][NextRerun]_vars

\* C5: after a reset, the same filter calls as in the previous run give the
\* same audit trail and the same row count as that run.
C5_RerunReproduces ==
  (prev_run /= None /\ calls = prev_run[1].calls) =>
    /\ summary = prev_run[1].summary
    /\ summary_ix = prev_run[1].summary_ix
    /\ NRows(df_flt[1]) = prev_run[1].rows

\* a two-call run repeated after the reset, with rows filtered out
C5_Witness ==
  /\ prev_run /= None
  /\ Len(calls) = 2
  /\ calls = prev_run[1].calls
  /\ NRows(df_flt[1]) < NRows(df)
  /\ Len(summary) >= 2

\* ------------------------------------------------------------------------
\* The raw table under filtering and the read-only calls
\* ------------------------------------------------------------------------

ViewArgs ==
  { IntKey(0), StrKey(kIrrPoa), ListKey(<<IntKey(0), StrKey(kWind)>>),
    ListKey(<<IntKey(0)>>) }

RViewArgs ==
  { <<StrKey("poa"), TRUE>>, <<StrKey(All), FALSE>>,
    <<ListKey(<<"poa", "t_amb">>), TRUE>>, <<ListKey(<<"t_amb">>), FALSE>> }

\* (freq, w_vel, inplace), freq in minutes
RepCondArgs ==
  { <<None, None, TRUE>>, <<None, Some(5), FALSE>>, <<Some(1), None, FALSE>>,
    <<Some(1), Some(5), FALSE>> }

FrameRepCondArgs == { <<None, None, TRUE>>, <<None, Some(5), FALSE>> }

FrameCalls ==
  { FilterCall(Num(8, 10), Num(12, 10), Some(1000), Some(cPOA), TRUE),
    FilterCall(Num(900, 1), Num(1600, 1), None, Some(cPOA), FALSE) }

LoadF ==
  /\ Fresh
  /\ \E t \in TablesOf(LayoutA, MaxRows) : load_data(t, TRUE, TRUE)
  /\ UNCHANGED <<clsvars, runvars>>

FilterF ==
  /\ \E c \in FrameCalls : filter_irr(c)
  /\ UNCHANGED <<clsvars, runvars>>

View ==
  /\ \E k \in ViewArgs : view(k)
  /\ UNCHANGED <<clsvars, runvars>>

RView ==
  /\ \E a \in RViewArgs : rview(a[1], a[2])
  /\ UNCHANGED <<clsvars, runvars>>

RepCond ==
  /\ \E a \in RepCondArgs : rep_cond(a[1], a[2], a[3])
  /\ UNCHANGED <<clsvars, runvars>>

RepCondF ==
  /\ \E a \in FrameRepCondArgs : rep_cond(a[1], a[2], a[3])
  /\ UNCHANGED <<clsvars, runvars>>

GetSummary ==
  /\ get_summary
  /\ UNCHANGED <<clsvars, runvars>>

NextFrame ==
  LoadF \/ SetRegTrans \/ FilterF \/ Reset \/ View \/ RView \/ RepCondF
    \/ GetSummary

SpecFrame == Init /\ [][NextFrame]_vars

ReadOrFilterOps ==
  {"filter_irr", "reset_flt", "rep_cond", "view", "rview", "get_summary"}

\* C6: filter_irr, reset_flt, rep_cond, view, rview and get_summary leave the
\* raw table as it is, and the working table is never the raw table object
\* itself.
C6_RawTableKept ==
  /\ [](~flt_is_df)
  /\ [][op'.name \in ReadOrFilterOps => df' = df]_vars

\* rows were filtered out of the working table and the raw table has them
C6_Witness ==
  /\ op.name \in {"rep_cond", "rview", "view", "get_summary"}
  /\ ret.kind = "value"
  /\ df_flt /= None
  /\ NRows(df_flt[1]) < NRows(df)
  /\ ~flt_is_df

\* ------------------------------------------------------------------------
\* The column group mapping under drop_cols and plot
\* ------------------------------------------------------------------------

\* one-row tables of every layout, read at minute 0
TransTables ==
  {t \in TablesOf(LayoutA, 1) \cup TablesOf(LayoutB, 1) \cup TablesOf(LayoutC, 1) :
     t.rows[1].ts = 0}

TransCalls ==
  { FilterCall(Num(8, 10), Num(12, 10), Some(1000), Some(cPOA), TRUE),
    FilterCall(Num(8, 10), Num(12, 10), Some(1000), None, TRUE) }

cMissing == <<"z","z">>

DropArgs ==
  { <<cPOA>>, <<cTamb>>, <<cMissing>>, <<cPOA2, cIndex>>, <<cPOA, cMissing>> }

MergeArgs == { <<gIrr, gTemp>>, <<gIrr>> }

LoadT ==
  /\ Fresh
  /\ \E t \in TransTables, report \in BOOLEAN : load_data(t, TRUE, report)
  /\ UNCHANGED <<clsvars, runvars>>

FilterT ==
  /\ \E c \in TransCalls : filter_irr(c)
  /\ UNCHANGED <<clsvars, runvars>>

DropCols ==
  /\ \E cols \in DropArgs : drop_cols(cols)
  /\ UNCHANGED <<clsvars, runvars>>

Plot ==
  /\ \E grps \in MergeArgs : plot(grps)
  /\ UNCHANGED <<clsvars, runvars>>

NextTrans == LoadT \/ SetRegTrans \/ FilterT \/ Reset \/ DropCols \/ Plot

SpecTrans == Init /\ [][NextTrans]_vars

\* the groups of trans that list column c
GroupsOf(c) == {k \in DOMAIN trans : c \in Range(trans[k])}

\* C8: after load_data with set_trans=True, whatever drop_cols, filter_irr,
\* reset_flt and plot calls follow, every column of the raw table is listed
\* in exactly one group of trans, and once there.
C8_OneGroupPerColumn ==
  df_flt /= None =>
    \A c \in Range(df.cols) :
      /\ Cardinality(GroupsOf(c)) = 1
      /\ \A k \in GroupsOf(c) : Occurrences(trans[k], c) = 1

\* ------------------------------------------------------------------------
\* The classifier on its own
\* ------------------------------------------------------------------------

InitClassify ==
  /\ InitCap
  /\ cin \in ClassifierInputs
  /\ cres = <<>>
  /\ calls = <<>>
  /\ prev_run = <<>>

NextClassify == series_type_call

SpecClassify == InitClassify /\ [][NextClassify]_vars

\* a and b are the same letter in either case, or the same character
SameLetter(a, b) == UpperChar(a) = UpperChar(b)

\* s occurs in name, letter case aside
OccursIn(name, s) ==
  \E off \in 0..(Len(name) - Len(s)) :
    \A k \in 1..Len(s) : SameLetter(name[off + k], s[k])

\* the table a classifier run searched
RunDefs == DefsInCase(cin.tbl, cin.tblcase)

\* the numbers of the categories with a search string occurring in the name
Hits == {i \in 1..Len(RunDefs) :
           \E j \in 1..Len(RunDefs[i].strs) :
             OccursIn(cin.name, RunDefs[i].strs[j])}

\* C9: the classifier returns the category listed first in the table among
\* those with a search string occurring in the name, wherever in the name
\* the strings occur, and the empty label when no search string occurs.
C9_FirstCategoryWins ==
  cres /= <<>> =>
    /\ ~cres[1].err
    /\ IF Hits = {} THEN cres[1].key = <<>>
       ELSE \E i \in Hits :
              /\ \A h \in Hits : i <= h
              /\ cres[1].key = RunDefs[i].key

\* the (category, search string) pairs occurring in the name
HitPairs ==
  {p \in (1..Len(RunDefs)) \X (1..11) :
     /\ p[2] <= Len(RunDefs[p[1]].strs)
     /\ OccursIn(cin.name, RunDefs[p[1]].strs[p[2]])}

\* C10: a name holding exactly one search string, of category X, is
\* classified X in every letter case of the name and of the search string.
C10_CaseInsensitive ==
  (cres /= <<>> /\ Cardinality(HitPairs) = 1) =>
    \A p \in HitPairs : ~cres[1].err /\ cres[1].key = RunDefs[p[1]].key

\* the first category of the searched table with a search string occurring
\* in the name
FirstHit == CHOOSE i \in Hits : \A h \in Hits : i <= h

\* C11: the bounds check is advisory: a column whose name holds a search
\* string is given that category whatever its values are, the call does
\* not raise, and lines are printed exactly when reporting is on and the
\* minimum or the maximum lies outside the bounds, each line naming the
\* offending value.
C11_BoundsAdvisory ==
  (cres /= <<>> /\ Hits /= {} /\ cin.mode[1]) =>
    LET b == RunDefs[FirstHit].bounds
    IN  /\ ~cres[1].err
        /\ cres[1].key = RunDefs[FirstHit].key
        /\ (cres[1].out /= <<>>) <=>
             /\ cin.mode[2]
             /\ \/ ~StatGeq(cin.stats[1], b.kind, b.lo)
                \/ ~StatLeq(cin.stats[2], b.kind, b.hi)
        /\ \A k \in 1..Len(cres[1].out) :
             cres[1].out[k].val \in {cin.stats[1], cin.stats[2]}

\* the poa role resolves to several raw columns
AmbiguousPoa ==
  /\ "poa" \in DOMAIN reg_trans
  /\ reg_trans["poa"] \in DOMAIN trans
  /\ Len(trans[reg_trans["poa"]]) > 1

GroupsNamed(tkey) ==
  LET one(k) == IF k.kind = "int" THEN <<trans_keys[k.i + 1]>> ELSE <<k.s>>
  IN  IF tkey.kind = "list"
      THEN Flatten([i \in 1..Len(tkey.l) |-> one(tkey.l[i])])
      ELSE one(tkey)

\* the argument is a key of trans_keys, an index into it, or a non-empty
\* list of such
AcceptedKey(tkey) ==
  LET ok(k) == IF k.kind = "int" THEN k.i \in 0..(Len(trans_keys) - 1)
               ELSE k.s \in Range(trans_keys)
  IN  IF tkey.kind = "list"
      THEN Len(tkey.l) >= 1 /\ \A i \in 1..Len(tkey.l) : ok(tkey.l[i])
      ELSE ok(tkey)

\* C13: view(tkey) returns the raw-table columns of the named groups, in
\* order, for a key, an index and a list of keys and indices, a list of one
\* element included.
C13_ViewSelectsGroups ==
  (op.name = "view" /\ AcceptedKey(op.args)) =>
    LET groups == GroupsNamed(op.args)
    IN  ret = RetValue(Select(df, Flatten([i \in 1..Len(groups) |->
                                             trans[groups[i]]])))

\* the roles an rview argument asks for, in order
RolesAsked(ind_var) ==
  IF ind_var.kind = "list" THEN ind_var.l
  ELSE IF ind_var.s = All THEN <<"power", "poa", "t_amb", "w_vel">>
  ELSE <<ind_var.s>>

\* the argument is a role name, a non-empty list of role names or 'all',
\* and every role asked for is mapped to a group of trans
RolesMapped(ind_var) ==
  LET asked == RolesAsked(ind_var)
  IN  /\ Len(asked) >= 1
      /\ \A i \in 1..Len(asked) :
           /\ asked[i] \in Roles
           /\ asked[i] \in DOMAIN reg_trans
           /\ reg_trans[asked[i]] \in DOMAIN trans

\* C14: rview returns the columns trans[reg_trans[role]] of every role asked
\* for, in the order asked, from the working table when filtered_data is
\* true and from the raw table otherwise, for a role name, a list of role
\* names and 'all'.
C14_RviewSelectsRoles ==
  (op.name = "rview" /\ RolesMapped(op.args[1])
     /\ (op.args[2] => df_flt /= None)) =>
    LET asked == RolesAsked(op.args[1])
        cols == Flatten([i \in 1..Len(asked) |-> trans[reg_trans[asked[i]]]])
    IN  ret = RetValue(Select(IF op.args[2] THEN df_flt[1] ELSE df, cols))

\* ------------------------------------------------------------------------
\* Reporting conditions
\* ------------------------------------------------------------------------

LoadRep ==
  /\ Fresh
  /\ \E t \in TablesOf(LayoutA, MaxRows) \cup TablesOf(LayoutB, MaxRows) :
       load_data(t, TRUE, TRUE)
  /\ UNCHANGED <<clsvars, runvars>>

NextRep == LoadRep \/ SetRegTrans \/ FilterF \/ RepCond

SpecRep == Init /\ [][NextRep]_vars

\* the rows of reporting conditions the last rep_cond call produced
RepRows == IF op.args[3] THEN rc[1] ELSE ret.val[1]

\* the rows of the working table that row r of the reporting conditions
\* stands for
RepSource(r) ==
  IF op.args[1] = None THEN df_flt[1]
  ELSE BinRows(df_flt[1], op.args[1][1], r.ix \div op.args[1][1])

\* the value lists an aggregate of a role may be taken of: the values of one
\* column of the role's group, or of all its columns together
RoleValues(role, t) ==
  LET cols == trans[reg_trans[role]]
      vals(c) == [k \in 1..NRows(t) |-> t.rows[k].v[c]]
  IN  {vals(cols[i]) : i \in 1..Len(cols)}
        \cup {Flatten([i \in 1..Len(cols) |-> vals(cols[i])])}

\* C15: in the result of rep_cond, poa is the 60th percentile of the
\* working-table values of the poa role's group, t_amb the mean of the
\* t_amb role's group and w_vel the mean of the w_vel role's group, however
\* many raw columns the groups hold.
C15_RoleAggregates ==
  (op.name = "rep_cond" /\ ret.kind /= "raised") =>
    \A k \in 1..Len(RepRows) :
      LET r == RepRows[k]
          t == RepSource(r)
      IN  IF NRows(t) = 0
          THEN r.poa = NaN /\ r.t_amb = NaN
                 /\ (op.args[2] = None => r.w_vel = NaN)
          ELSE /\ \E x \in RoleValues("poa", t) :
                    r.poa = Num(perc_wrap60(x), 1)
               /\ \E x \in RoleValues("t_amb", t) : r.t_amb = Mean(x)
               /\ op.args[2] = None =>
                    \E x \in RoleValues("w_vel", t) : r.w_vel = Mean(x)

MaxFiles == 2

fA == <<"a", ".", "c", "s", "v">>
fB == <<"b", ".", "C", "S", "V">>
fPvsyst == <<"P", "V", "s", "y", "s", "t", ".", "c", "s", "v">>

\* what a file of one column and one row reads as
OneRow(c, ts, x) == [cols |-> <<c>>, rows |-> <<[ts |-> ts, v |-> (c :> x)]>>]

\* the entries a directory is made of: a name and what the file reads as
DirFiles ==
  { [name |-> fA, data |-> OneRow(cPOA, 0, 1000)],
    [name |-> fB, data |-> OneRow(cPOA, 1, 1600)],
    [name |-> fB, data |-> OneRow(cTamb, 0, 25)],
    [name |-> fPvsyst, data |-> OneRow(cPOA, 0, 1000)],
    [name |-> <<"a", ".", "t", "x", "t">>, data |-> OneRow(cPOA, 0, 1000)],
    [name |-> <<"c", ".", "C", "s", "v">>, data |-> OneRow(cPOA, 0, 1000)] }

\* os.listdir(path): the entries of a directory, each name once, in an order
\* of the system's choosing
Listings ==
  {l \in SeqsUpTo(DirFiles, MaxFiles) :
     \A i, j \in 1..Len(l) : l[i].name = l[j].name => i = j}

LoadDir ==
  /\ Fresh
  /\ \E l \in Listings, pv \in BOOLEAN, sort_cols \in BOOLEAN,
        with_trans \in BOOLEAN :
       load_data_dir(l, pv, sort_cols, with_trans, TRUE)
  /\ UNCHANGED <<clsvars, runvars>>

\* Lines 466-475.  CapData() is called without the name that __init__ (line
\* 427) requires, which is a TypeError; given_name is what the call passes.
copy(given_name) ==
  /\ op' = Call("copy", <<>>)
  /\ ret' = IF given_name = None THEN RetRaised
            ELSE RetValue([name |-> given_name[1], df |-> df, trans |-> trans,
                           trans_keys |-> trans_keys,
                           reg_trans |-> reg_trans])
  /\ UNCHANGED <<df, df_flt, flt_is_df, trans, trans_keys, reg_trans,
                 summary_ix, summary, rc>>

Copy ==
  /\ op.name /= "copy"
  /\ copy(None)
  /\ UNCHANGED <<clsvars, runvars>>

NextDir == LoadDir \/ SetRegTrans \/ Copy

SpecDir == Init /\ [][NextDir]_vars

\* the last call loaded a directory
DirLoaded == op.name = "load_data" /\ Len(op.args) = 4

\* its files that were read, in reading order, from the lines printed
FilesRead ==
  SelectSeq(ret.out, LAMBDA x : "line" \in DOMAIN x /\ x.line = "Read")

\* the entry of the listing with the given name
Entry_(l, nm) == l[CHOOSE i \in 1..Len(l) : l[i].name = nm]

\* the timestamps of the files that were read
StampsRead ==
  UNION {{Entry_(op.args[1], FilesRead[k].file).data.rows[i].ts :
            i \in 1..NRows(Entry_(op.args[1], FilesRead[k].file).data)} :
         k \in 1..Len(FilesRead)}

\* C17: the table combined from a directory has one row for each distinct
\* timestamp of the files read, with no missing value where some file has
\* the value.
C17_OneRowPerTimestamp ==
  DirLoaded =>
    /\ NRows(df) = Cardinality(StampsRead)
    /\ \A i \in 1..NRows(df) : \A c \in Range(df.cols) \ {cIndex} :
         df.rows[i].v[c] = NaNCell =>
           \A k \in 1..Len(FilesRead) :
             LET t == Entry_(op.args[1], FilesRead[k].file).data
             IN  c \in Range(t.cols) =>
                   \A j \in 1..NRows(t) : t.rows[j].ts /= df.rows[i].ts

\* the table load_data leaves in df for a listing
DirTable(listing, load_pvsyst, sort_cols) ==
  AddIndexCol(ReadFiles(files_to_read(listing), 1, load_pvsyst, sort_cols,
                        [all_sensors |-> EmptyFrame, out |-> <<>>]).all_sensors)

\* the listings os.listdir can return for the directory of listing l
Reorderings(l) ==
  {m \in Listings : Len(m) = Len(l) /\ Range(m) = Range(l)}

\* C18: the table combined from a directory is the same, rows in the same
\* order, for every order in which the listing returns the entries.
C18_ListingOrderIrrelevant ==
  DirLoaded =>
    \A m \in Reorderings(op.args[1]) : \A sort_cols \in BOOLEAN :
      DirTable(m, op.args[2], sort_cols)
        = DirTable(op.args[1], op.args[2], sort_cols)

\* name contains 'pvsyst' in some letter case
NamesPvsyst(name) == OccursIn(name, <<"p", "v", "s", "y", "s", "t">>)

\* name ends in '.csv' or in '.CSV'
IsCsvName(name) ==
  /\ Len(name) >= 4
  /\ SubSeq(name, Len(name) - 3, Len(name))
       \in {<<".", "c", "s", "v">>, <<".", "C", "S", "V">>}

\* C19: with load_pvsyst=False the files read are exactly the entries ending
\* in '.csv' or '.CSV' that do not contain 'pvsyst' in any letter case, with
\* load_pvsyst=True exactly those that do; no other entry is read, and the
\* table is the one combined from the files read.
C19_ReadsEligibleCsv ==
  DirLoaded =>
    LET l == op.args[1]
        eligible == SelectSeq(l, LAMBDA f :
                      IsCsvName(f.name) /\ (NamesPvsyst(f.name) <=> op.args[2]))
    IN  /\ [k \in 1..Len(FilesRead) |-> FilesRead[k].file]
             = [k \in 1..Len(eligible) |-> eligible[k].name]
        /\ \E sort_cols \in BOOLEAN :
             df = DirTable(eligible, op.args[2], sort_cols)

\* a directory of one upper-case .CSV entry and one PVsyst entry, loaded
\* without load_pvsyst: the first is read, the second skipped
C19_Witness ==
  /\ DirLoaded
  /\ ~op.args[2]
  /\ Len(op.args[1]) = 2
  /\ {op.args[1][i].name : i \in 1..2} = {fB, fPvsyst}
  /\ ret.kind = "none"
  /\ {ret.out[1], ret.out[2]} = {[line |-> "Read", file |-> fB],
                                  [line |-> "Skipped file", file |-> fPvsyst]}
  /\ NRows(df) >= 1

\* C20: loading a directory without an eligible file warns, does not raise
\* and leaves a table without rows.
C20_NoEligibleFileWarns ==
  (DirLoaded /\ Len(FilesRead) = 0) =>
    /\ ret.kind = "warned"
    /\ NRows(df) = 0

\* ------------------------------------------------------------------------
\* CapData.load_das
\* ------------------------------------------------------------------------
\* A file is [name, lines]: name is the header cell of its one data column
\* (the first line of the file) and lines are the lines below it, each [ix,
\* cell].  ix tells whether the cell of the index column parses as a
\* timestamp ("date") or not ("text"); cell is [k, s, n] with k "num" (s as
\* written, n its value), "txt" or "nan" (a blank cell).

\* str.strip()
RECURSIVE Strip(_)
Strip(s) ==
  IF Len(s) = 0 THEN s
  ELSE IF Head(s) = " " THEN Strip(Tail(s))
  ELSE IF s[Len(s)] = " " THEN Strip(SubSeq(s, 1, Len(s) - 1))
  ELSE s

\* s.split(ch)[0] and s.split(ch)[-1]
SplitFirst(s, ch) ==
  LET at == {i \in 1..Len(s) : s[i] = ch}
  IN  IF at = {} THEN s
      ELSE SubSeq(s, 1, (CHOOSE i \in at : \A j \in at : i <= j) - 1)

SplitLast(s, ch) ==
  LET at == {i \in 1..Len(s) : s[i] = ch}
  IN  IF at = {} THEN s
      ELSE SubSeq(s, (CHOOSE i \in at : \A j \in at : j <= i) + 1, Len(s))

\* Lines 547-581: the column name built from the first three lines.  A cell
\* of a column holding some text is the string of the file or the nan object
\* of numpy; a cell of a numeric column is a float or an int of its own, and
\* a float nan is not the nan object of numpy.
AlsoEnergyName(lines) ==
  LET ks == {lines[i].cell.k : i \in 1..Len(lines)}
      dtype == IF "txt" \in ks THEN "object"
               ELSE IF "nan" \in ks THEN "float" ELSE "int"
      nan == <<"n", "a", "n">>
      str(c) == IF c.k = "nan" THEN nan
                ELSE IF dtype = "float" THEN c.s \o <<".", "0">>
                ELSE c.s
      isstr(c) == dtype = "object" /\ c.k /= "nan"
      one == IF isstr(lines[1].cell)
             THEN Strip(SplitFirst(lines[1].cell.s, "("))
             ELSE str(lines[1].cell)
      two == IF isstr(lines[2].cell)
             THEN IF SplitLast(lines[2].cell.s, ",") = lines[2].cell.s
                  THEN lines[2].cell.s
                  ELSE Strip(SplitLast(lines[2].cell.s, ","))
             ELSE str(lines[2].cell)
      three == IF dtype = "object" /\ lines[3].cell.k = "nan" THEN <<>>
               ELSE str(lines[3].cell)
  IN  one \o <<" ">> \o two \o <<",", " ">> \o three

\* read_csv with header=[0, .., p-1]: the levels of the column, a blank
\* header cell being named by pandas
HeaderLevels(file, p) ==
  <<file.name>> \o
  [k \in 1..(p - 1) |->
     IF file.lines[k].cell.k = "nan"
     THEN <<"U","n","n","a","m","e","d",":"," ","1","_","l","e","v","e","l","_">>
            \o <<Digits[k + 1]>>
     ELSE file.lines[k].cell.s]

\* Lines 504-592.  source is None or Some("AlsoEnergy"); same_object tells
\* whether the string given is the very object of the literal 'AlsoEnergy'
\* of line 587.  The result is [err, tbl], tbl being [cols, dated, rows]:
\* the column names, whether the index holds timestamps, and for each row
\* kept the line it comes from and its value.
load_das(file, source, same_object) ==
  LET L == file.lines
      dates == {i \in 1..Len(L) : L[i].ix = "date"}
      AE == source = Some("AlsoEnergy")
      header_end == CHOOSE i \in dates : \A j \in dates : i <= j
      reread == dates /= 1..Len(L)
      \* line 521 on a file without lines, line 537 without header_end,
      \* lines 548-550 on fewer than three lines
      early == \/ Len(L) = 0
               \/ reread /\ ~AE /\ dates = {}
               \/ reread /\ AE /\ Len(L) < 3
      first == IF reread /\ ~AE THEN header_end ELSE 1
      \* the column label: a string, or a tuple of the header levels
      levels == IF reread /\ ~AE /\ header_end > 1
                THEN HeaderLevels(file, header_end)
                ELSE IF reread /\ AE THEN <<AlsoEnergyName(L)>>
                ELSE <<file.name>>
      is_tuple == reread /\ ~AE /\ header_end > 1
      \* lines 583-585
      kept == SelectSeq([i \in 1..(Len(L) - first + 1) |->
                           [line |-> first + i - 1,
                            ix |-> L[first + i - 1].ix,
                            k |-> L[first + i - 1].cell.k,
                            v |-> L[first + i - 1].cell.n]],
                        LAMBDA r : r.k = "num")
      \* line 587 is an identity test
      joined == ~AE \/ ~same_object
      label == IF ~joined THEN levels[1]
               ELSE IF is_tuple THEN Strip(Join(<<" ">>, levels))
               ELSE Strip(Join(<<" ">>, [i \in 1..Len(levels[1]) |->
                                           <<levels[1][i]>>]))
      \* line 590: pd.to_datetime(all_data.index)
      late == ~joined /\ \E i \in 1..Len(kept) : kept[i].ix = "text"
  IN  IF early \/ late THEN [err |-> TRUE, tbl |-> <<>>]
      ELSE [err |-> FALSE,
            tbl |-> [cols |-> IF Len(kept) = 0 THEN <<>> ELSE <<label>>,
                     dated |-> ~joined \/ \A i \in first..Len(L) :
                                            L[i].ix = "date",
                     rows |-> [i \in 1..Len(kept) |->
                                 [line |-> kept[i].line, v |-> kept[i].v]]]]

\* a file has at most this many lines below its first
MaxLines == 4

\* cells: a number, a text with a parenthesis and a comma, a blank
DasCells ==
  { [k |-> "num", s |-> <<"5">>, n |-> 5],
    [k |-> "txt", s |-> <<"a", " ", "(", "b", ",", " ", "c">>, n |-> 0],
    [k |-> "nan", s |-> <<>>, n |-> 0] }

DasFiles ==
  {[name |-> cPOA, lines |-> l] :
     l \in SeqsUpTo([ix : {"date", "text"}, cell : DasCells], MaxLines)}

\* a file is read by a container just made
LoadDas ==
  /\ op.name = "init"
  /\ \E f \in DasFiles, source \in {None, Some("AlsoEnergy")},
        same_object \in BOOLEAN :
       LET r == load_das(f, source, same_object)
       IN  /\ source = None => ~same_object
           /\ op' = Call("load_das", <<f, source, same_object>>)
           /\ ret' = IF r.err THEN RetRaised ELSE RetValue(r.tbl)
  /\ UNCHANGED <<df, df_flt, flt_is_df, trans, trans_keys, reg_trans,
                 summary_ix, summary, rc>>
  /\ UNCHANGED <<clsvars, runvars>>

SpecDas == Init /\ [][LoadDas]_vars

\* the last call read a file
DasRead == op.name = "load_das"

\* C21: reading a file none of whose index cells parses as a timestamp
\* raises, whatever the source given; no table is returned.
C21_NoTimestampRaises ==
  (DasRead /\ \A i \in 1..Len(op.args[1].lines) :
                 op.args[1].lines[i].ix = "text")
    => ret.kind = "raised"

\* the header of a file: its first line and the lines above its first
\* timestamp, as the non-empty strings of the column in line order
HeaderStrings(file) ==
  LET dates == {i \in 1..Len(file.lines) : file.lines[i].ix = "date"}
      above == {i \in 1..Len(file.lines) : \A j \in dates : i < j}
      cells == [i \in 1..Cardinality(above) |-> file.lines[i].cell.s]
  IN  SelectSeq(<<file.name>> \o cells, LAMBDA s : Len(s) > 0)

\* C22: without a source given, the name of every column of the table read
\* is the non-empty header strings of the column joined by one blank in line
\* order; with one header line it is the name as written in the file.
C22_NamesAreJoinedLevels ==
  (DasRead /\ op.args[2] = None /\ ret.kind = "value") =>
    \A i \in 1..Len(ret.val[1].cols) :
      ret.val[1].cols[i] = Join(<<" ">>, HeaderStrings(op.args[1]))

\* C23: a file read as AlsoEnergy whose third header line is blank in the
\* column and whose lines below the header carry timestamps is read
\* without raising, and the column is named by the first two header parts
\* followed by an empty third part.
C23_BlankThirdPart ==
  LET L == op.args[1].lines
  IN  (/\ DasRead
       /\ op.args[2] = Some("AlsoEnergy")
       /\ Len(L) >= 3
       /\ \A i \in 1..Len(L) : L[i].ix = "date" <=> i > 3
       /\ L[1].cell.k = "txt" /\ L[2].cell.k = "txt" /\ L[3].cell.k = "nan")
      => /\ ret.kind = "value"
         /\ \A i \in 1..Len(ret.val[1].cols) :
              ret.val[1].cols[i]
                = Strip(SplitFirst(L[1].cell.s, "(")) \o <<" ">>
                    \o Strip(SplitLast(L[2].cell.s, ",")) \o <<",", " ">>

\* ------------------------------------------------------------------------
\* Dropping columns
\* ------------------------------------------------------------------------

\* s without the members of the set named, the others in their order
Without(s, named) == SelectSeq(s, LAMBDA c : c \notin named)

C25_NotInPlaceChangesNothing ==
  [][(op'.name = "filter_irr" /\ ~op'.args.inplace /\ ret'.kind = "value") =>
       /\ df_flt' = df_flt
       /\ df' = df
       /\ Len(summary') = Len(summary)
       /\ Len(summary_ix') = Len(summary_ix)]_vars

\* C26: copy() returns, without raising, a container whose raw table,
\* trans, trans_keys and reg_trans equal those of the original.
C26_CopyEqualsOriginal ==
  op.name = "copy" =>
    /\ ret.kind = "value"
    /\ ret.val[1].df = df
    /\ ret.val[1].trans = trans
    /\ ret.val[1].trans_keys = trans_keys
    /\ ret.val[1].reg_trans = reg_trans

\* C27: an in-place filter_irr call repeated right after itself leaves the
\* working table as the first call left it, and its audit entry records 0
\* rows removed.
C27_FilterIdempotent ==
  [][(/\ op.name = "filter_irr" /\ op.args.inplace /\ ret = RetNone
      /\ op' = op) =>
       /\ ret' = RetNone
       /\ df_flt' = df_flt
       /\ summary'[Len(summary')].pts_removed = 0]_vars

\* ------------------------------------------------------------------------
\* Loading again
\* ------------------------------------------------------------------------

\* load_data called on a container just made, or again on one whose audit
\* trail holds an entry
Reload ==
  /\ op.name = "init" \/ (op.name /= "load_data" /\ Len(summary) > 0)
  /\ \E x \in {1000, 1600} : load_data(OneRow(cPOA, 0, x), TRUE, TRUE)
  /\ UNCHANGED <<clsvars, runvars>>

NextReload == Reload \/ FilterT \/ Reset \/ DropCols

SpecReload == Init /\ [][NextReload]_vars

\* C28: whenever the audit trail is not empty, the rows remaining of its
\* last entry are the rows of the working table.
C28_TrailMatchesRows ==
  (Len(summary) > 0 /\ df_flt /= None) =>
    summary[Len(summary)].pts_before_filter = NRows(df_flt[1])

\* C29: a drop_cols call naming a column that the raw table does not have
\* raises and leaves the raw table and trans as they were.
C29_DropAllOrNothing ==
  [][(op'.name = "drop_cols" /\ ~(Range(op'.args) \subseteq Range(df.cols)))
       => /\ ret'.kind = "raised"
          /\ df' = df
          /\ trans' = trans]_vars

\* C30: once data is loaded, the working table has the columns of the raw
\* table, whatever filter_irr, reset_flt and drop_cols calls were made.
C30_SameColumns ==
  df_flt /= None => Range(df_flt[1].cols) = Range(df.cols)

====
